---- MODULE Spec2Model ----
(***************************************************************************)
(* Model of the lefolab-labelbox scripts: import_datarows.py (importer),    *)
(* change_datarows_attachment.py (attachment manager) and                  *)
(* send_to_annotate.py (sender).                                            *)
(*                                                                         *)
(* Python strings are modelled as sequences of one-character strings, so   *)
(* that split, lower, replace, endswith and the "in" substring test are     *)
(* computed character by character.                                        *)
(***************************************************************************)
EXTENDS Integers, Sequences, FiniteSets, Bags, TLC

\* Python's None: no string, and comparable with the character sequences
None == <<"None">>

(***************************************************************************)
(* Python string primitives used by the scripts.                           *)
(***************************************************************************)
UpperChars == <<"A","B","C","D","E","F","G","H","I","J","K","L","M",
                "N","O","P","Q","R","S","T","U","V","W","X","Y","Z">>
LowerChars == <<"a","b","c","d","e","f","g","h","i","j","k","l","m",
                "n","o","p","q","r","s","t","u","v","w","x","y","z">>

\* str.lower(), one character
LowerChar(c) ==
    IF \E k \in 1..Len(UpperChars) : UpperChars[k] = c
    THEN LowerChars[CHOOSE k \in 1..Len(UpperChars) : UpperChars[k] = c]
    ELSE c

\* str.lower()
Lower(s) == [k \in 1..Len(s) |-> LowerChar(s[k])]

\* str.startswith(p)
StartsWith(s, p) == Len(p) <= Len(s) /\ SubSeq(s, 1, Len(p)) = p

\* str.endswith(p)
EndsWith(s, p) == Len(p) <= Len(s) /\ SubSeq(s, Len(s) - Len(p) + 1, Len(s)) = p

\* the substring test "sub in s"
Contains(s, sub) ==
    \E k \in 0..(Len(s) - Len(sub)) : SubSeq(s, k + 1, k + Len(sub)) = sub

\* the positions of character c in s
Positions(s, c) == {k \in 1..Len(s) : s[k] = c}

Max(S) == CHOOSE x \in S : \A y \in S : y <= x
Min(S) == CHOOSE x \in S : \A y \in S : x <= y

\* the k-th smallest element of a set of numbers
Kth(S, k) == CHOOSE x \in S : Cardinality({y \in S : y <= x}) = k

\* s.split(c)[-1]: what follows the last c, the whole of s when it has none
SplitLast(s, c) ==
    IF Positions(s, c) = {} THEN s
    ELSE SubSeq(s, Max(Positions(s, c)) + 1, Len(s))

\* s.split(c, 1)[-1]: what follows the first c, the whole of s when it has none
SplitOnceLast(s, c) ==
    IF Positions(s, c) = {} THEN s
    ELSE SubSeq(s, Min(Positions(s, c)) + 1, Len(s))

\* s.split(c): every part, in order
RECURSIVE Split(_, _)
Split(s, c) ==
    IF Positions(s, c) = {} THEN <<s>>
    ELSE <<SubSeq(s, 1, Min(Positions(s, c)) - 1)>>
         \o Split(SubSeq(s, Min(Positions(s, c)) + 1, Len(s)), c)

\* s.replace(old, new), old not empty: every occurrence, left to right
RECURSIVE Replace(_, _, _)
Replace(s, old, new) ==
    IF Len(s) < Len(old) THEN s
    ELSE IF SubSeq(s, 1, Len(old)) = old
         THEN new \o Replace(SubSeq(s, Len(old) + 1, Len(s)), old, new)
         ELSE <<s[1]>> \o Replace(SubSeq(s, 2, Len(s)), old, new)

\* os.path.basename(s)
Basename(s) == SplitLast(s, "/")

(***************************************************************************)
(* String constants of the scripts.                                        *)
(***************************************************************************)
TELE == <<"t","e","l","e">>
ZOOM == <<"z","o","o","m">>
TELE_JPG == <<"t","e","l","e",".","j","p","g">>
ZOOM_JPG == <<"z","o","o","m",".","j","p","g">>
WIDE_JPG == <<"w","i","d","e",".","J","P","G">>
DOT_JPG == <<".","J","P","G">>
DOT_jpg == <<".","j","p","g">>
DOT_HTML == <<".","h","t","m","l">>
ATTACHMENTS_PATH == <<"/","l","a","b","e","l","b","o","x","/","a","t","t","a","c","h","m","e","n","t","s","/">>
TBS == <<"t","b","s">>
BCI == <<"b","c","i">>
PREFIX_TIPUTINI == <<"2","0","2","5","_","t","i","p","u","t","i","n","i">>
PREFIX_BCI == <<"2","0","2","4","_","b","c","i">>
DUPLICATE_GLOBAL_KEY == <<"D","u","p","l","i","c","a","t","e"," ","g","l","o","b","a","l"," ","k","e","y">>

\* the environment variables, any non-empty strings
ALLIANCECAN_URL == <<"u">>
BUCKET_WPT == <<"w">>

\* Python truthiness of a string or None
Truthy(x) == x # None /\ x # <<>>

(***************************************************************************)
(* Importer (import_datarows.py): lister, classifier, matcher, asset.      *)
(***************************************************************************)
\* a key that ends in .jpg whatever its letter case
imp_is_jpg(key) == EndsWith(Lower(key), DOT_jpg)

imp_file_keys(listing) == SelectSeq(listing, imp_is_jpg)

\* faulty variant: the zoom keys are close-ups beside the tele keys
imp_closeup_files_both(file_keys) ==
    SelectSeq(file_keys, LAMBDA key : Contains(key, TELE) \/ Contains(key, ZOOM))

imp_closeup_files(file_keys) ==
    LET tele == SelectSeq(file_keys, LAMBDA key : Contains(key, TELE))
        zoom == SelectSeq(file_keys, LAMBDA key : Contains(key, ZOOM))
    IN  IF tele # <<>> THEN tele ELSE zoom

imp_folder_url(mission_id) ==
    ALLIANCECAN_URL \o <<"/">> \o BUCKET_WPT \o <<"/">> \o mission_id \o <<"/">>

imp_global_key(closeup_file) == SplitOnceLast(closeup_file, "/")

\* faulty variant: the last segment is not lower-cased before tele.jpg is stripped
imp_polygon_id_no_lower(closeup_file) ==
    IF Contains(closeup_file, TELE)
    THEN Replace(SplitLast(closeup_file, "_"), TELE_JPG, <<>>)
    ELSE Replace(SplitLast(closeup_file, "_"), ZOOM_JPG, <<>>)

imp_polygon_id(closeup_file) ==
    IF Contains(closeup_file, TELE)
    THEN Replace(Lower(SplitLast(closeup_file, "_")), TELE_JPG, <<>>)
    ELSE Replace(Lower(SplitLast(closeup_file, "_")), ZOOM_JPG, <<>>)

imp_wide_file_end(closeup_file) ==
    IF Contains(closeup_file, TELE)
    THEN <<"_">> \o imp_polygon_id(closeup_file) \o WIDE_JPG
    ELSE <<"_">> \o imp_polygon_id(closeup_file) \o DOT_JPG

imp_exclusion_keyword(closeup_file) ==
    IF Contains(closeup_file, TELE) THEN TELE ELSE ZOOM

imp_map_url(closeup_file, mission_id) ==
    ALLIANCECAN_URL \o <<"/">> \o mission_id \o ATTACHMENTS_PATH
        \o Replace(Basename(closeup_file), DOT_JPG, DOT_HTML)

imp_matching_wide_files(closeup_file, file_keys) ==
    SelectSeq(file_keys,
              LAMBDA key : /\ Contains(key, imp_wide_file_end(closeup_file))
                           /\ ~Contains(key, imp_exclusion_keyword(closeup_file)))

imp_wide_file(closeup_file, file_keys) ==
    IF imp_matching_wide_files(closeup_file, file_keys) # <<>>
    THEN Head(imp_matching_wide_files(closeup_file, file_keys))
    ELSE None

\* the warnings one loop iteration logs
imp_warnings(closeup_file, file_keys) ==
    [multiple |-> Len(imp_matching_wide_files(closeup_file, file_keys)) > 1,
     no_wide  |-> ~Truthy(imp_wide_file(closeup_file, file_keys))]

assets_template ==
    [row_data |-> <<>>,
     global_key |-> <<>>,
     media_type |-> "IMAGE",
     metadata_fields |-> << [name |-> "mission", value |-> <<>>],
                            [name |-> "polygon", value |-> <<>>] >>,
     attachments |-> << [type |-> "IMAGE", value |-> <<>>, name |-> "wide"],
                        [type |-> "HTML", value |-> <<>>, name |-> "map"] >>]

\* one iteration of the asset loop: the asset appended for closeup_file
imp_asset(closeup_file, file_keys, mission_id) ==
    LET wide_file == imp_wide_file(closeup_file, file_keys)
        a1 == [assets_template EXCEPT
                 !.row_data = imp_folder_url(mission_id) \o closeup_file,
                 !.global_key = imp_global_key(closeup_file),
                 !.metadata_fields[1].value = mission_id,
                 !.metadata_fields[2].value = imp_polygon_id(closeup_file),
                 !.attachments[2].value = imp_map_url(closeup_file, mission_id)]
    IN  IF Truthy(wide_file)
        THEN [a1 EXCEPT !.attachments[1].value = imp_folder_url(mission_id) \o wide_file]
        ELSE a1

imp_assets(closeup_files, file_keys, mission_id) ==
    [k \in 1..Len(closeup_files) |-> imp_asset(closeup_files[k], file_keys, mission_id)]

(***************************************************************************)
(* Attachment manager (change_datarows_attachment.py).                     *)
(***************************************************************************)
\* faulty variant: the extension is compared without lower-casing the key
att_is_jpg_case_sensitive(key) == EndsWith(key, DOT_JPG)

att_is_jpg(key) == EndsWith(Lower(key), DOT_jpg)

att_folder_url(mission_id) == ALLIANCECAN_URL \o <<"/">> \o mission_id \o <<"/">>

\* get_mission_files: (None, None, None) on a failed fetch
get_mission_files(status_code, listing, mission_id) ==
    IF status_code # 200
    THEN [file_keys |-> None, closeup_files |-> None, folder_url |-> None]
    ELSE LET file_keys == SelectSeq(listing, att_is_jpg)
             tele == SelectSeq(file_keys, LAMBDA key : Contains(key, TELE))
             zoom == SelectSeq(file_keys, LAMBDA key : Contains(key, ZOOM))
         IN  [file_keys |-> file_keys,
              closeup_files |-> IF tele # <<>> THEN tele ELSE zoom,
              folder_url |-> att_folder_url(mission_id)]

att_global_key(closeup_file) == SplitOnceLast(closeup_file, "/")

att_map_url(closeup_file, mission_id) ==
    ALLIANCECAN_URL \o <<"/">> \o mission_id \o ATTACHMENTS_PATH
        \o Replace(Basename(closeup_file), DOT_JPG, DOT_HTML)

att_polygon_id(closeup_file) ==
    IF Contains(closeup_file, TELE)
    THEN Replace(Lower(SplitLast(closeup_file, "_")), TELE_JPG, <<>>)
    ELSE Replace(Lower(SplitLast(closeup_file, "_")), ZOOM_JPG, <<>>)

att_wide_file_end(closeup_file) ==
    IF Contains(closeup_file, TELE)
    THEN <<"_">> \o att_polygon_id(closeup_file) \o WIDE_JPG
    ELSE <<"_">> \o att_polygon_id(closeup_file) \o DOT_JPG

att_exclusion_keyword(closeup_file) ==
    IF Contains(closeup_file, TELE) THEN TELE ELSE ZOOM

att_matching_wide_files(closeup_file, file_keys) ==
    SelectSeq(file_keys,
              LAMBDA key : /\ Contains(key, att_wide_file_end(closeup_file))
                           /\ ~Contains(key, att_exclusion_keyword(closeup_file)))

\* faulty variant: the last candidate is taken, not the first
att_wide_file_last(closeup_file, file_keys) ==
    IF att_matching_wide_files(closeup_file, file_keys) # <<>>
    THEN att_matching_wide_files(closeup_file, file_keys)[
             Len(att_matching_wide_files(closeup_file, file_keys))]
    ELSE None

att_wide_file(closeup_file, file_keys) ==
    IF att_matching_wide_files(closeup_file, file_keys) # <<>>
    THEN Head(att_matching_wide_files(closeup_file, file_keys))
    ELSE None

\* the warnings one iteration of create_attachments prints
att_warnings(closeup_file, file_keys) ==
    [multiple |-> Len(att_matching_wide_files(closeup_file, file_keys)) > 1,
     no_wide  |-> ~Truthy(att_wide_file(closeup_file, file_keys))]

\* the attachments one iteration of create_attachments creates, in order
att_new_attachments(closeup_file, file_keys, folder_url, mission_id) ==
    (IF Truthy(att_wide_file(closeup_file, file_keys))
     THEN << [type |-> "IMAGE",
              value |-> folder_url \o att_wide_file(closeup_file, file_keys),
              name |-> "wide"] >>
     ELSE << >>)
    \o << [type |-> "HTML", value |-> att_map_url(closeup_file, mission_id),
           name |-> "map"] >>

(***************************************************************************)
(* Object keys a bucket listing is drawn from.                             *)
(***************************************************************************)
K_mission_p07_tele == <<"m","i","s","s","i","o","n","_","p","0","7","_","t","e","l","e",".","J","P","G">>
K_mission_p07tele == <<"m","i","s","s","i","o","n","_","p","0","7","t","e","l","e",".","J","P","G">>
K_mission_p07wide == <<"m","i","s","s","i","o","n","_","p","0","7","w","i","d","e",".","J","P","G">>
K_other_p07wide == <<"x","_","p","0","7","w","i","d","e",".","J","P","G">>
K_tele_p07wide == <<"t","e","l","e","_","p","0","7","w","i","d","e",".","J","P","G">>
K_a_tele == <<"a","_","t","e","l","e",".","J","P","G">>
K_a_wide == <<"a","_","w","i","d","e",".","J","P","G">>
K_b_zoom == <<"b","_","z","o","o","m",".","J","P","G">>
K_b == <<"b",".","J","P","G">>
K_c_png == <<"c",".","p","n","g">>
K_m_p07zoom == <<"m","_","p","0","7","z","o","o","m",".","J","P","G">>
K_m_p07 == <<"m","_","p","0","7",".","J","P","G">>
K_dir2_tele == <<"d","/","e","/","m","_","P","0","8","t","e","l","e",".","j","p","g">>
K_m_p08wide == <<"m","_","p","0","8","w","i","d","e",".","J","P","G">>
K_jpg_txt == <<"n","_","p","0","7","t","e","l","e",".","J","P","G",".","t","x","t">>

Keys ==
    {K_mission_p07_tele, K_mission_p07tele, K_mission_p07wide, K_other_p07wide,
     K_tele_p07wide, K_m_p07zoom, K_m_p07, K_dir2_tele, K_m_p08wide, K_jpg_txt}

\* the end-to-end scenario of the specification's section 8
ScenarioListing == <<K_a_tele, K_a_wide, K_b_zoom, K_b, K_c_png>>

\* the longest listing drawn exhaustively from Keys
MaxKeys == 3

SeqsUpTo(S, n) == UNION {[1..k -> S] : k \in 0..n}

Listings == SeqsUpTo(Keys, MaxKeys) \cup {ScenarioListing}

(***************************************************************************)
(* State.  The platform and the running script (system specification), and *)
(* the inputs and results of the file functions (file specification).      *)
(***************************************************************************)
VARIABLES
    datasets,       \* platform: the bag of the datasets' names
    rows,           \* platform: global key -> [dataset, attachments]
    batches,        \* platform: the batches created
    script,         \* the script that runs: "none", "import", "attach", "send"
    pc,             \* its position
    args,           \* its command-line arguments
    prefix,         \* importer, sender: the dataset-name prefix
    status_code,    \* the listing response's status
    file_keys,      \* the keys ending in .jpg
    closeup_files,  \* the close-up keys
    folder_url,
    assets,         \* importer: the data rows to submit
    i,              \* attachment manager: index of the next close-up file
    errors,         \* importer: task.errors
    exit_status,    \* the process exit status, read when pc = "done"
    exception,      \* the unhandled exception that ended the run, or "none"
    h_pc,           \* file specification: position
    h_listing,      \* the object keys of the listing
    h_imp,          \* importer: [file_keys, closeup_files]
    h_att,          \* get_mission_files' result
    h_i,            \* index of the next close-up file
    h_imp_out,      \* importer: one record per close-up file processed
    h_att_out       \* create_attachments: one record per close-up file processed

svars == <<datasets, rows, batches, script, pc, args, prefix, status_code,
           file_keys, closeup_files, folder_url, assets, i, errors,
           exit_status, exception>>
hvars == <<h_pc, h_listing, h_imp, h_att, h_i, h_imp_out, h_att_out>>
vars == <<svars, hvars>>

\* a name not bound yet (the importer's lists after a failed fetch)
Undefined == <<"undefined">>

NoArgs == [mission_id |-> <<>>, prefix |-> None, project |-> <<>>,
           delete |-> FALSE, create |-> FALSE]

\* task.errors is None, or a list of errors
NoneErrors == [is_none |-> TRUE, items |-> <<>>]

\* the platform holds no data row
NoRows == [g \in {} |-> <<>>]

\* no script runs, nothing is on the platform
SysIdle ==
    /\ datasets = EmptyBag
    /\ rows = NoRows
    /\ batches = <<>>
    /\ script = "none"
    /\ pc = "idle"
    /\ args = NoArgs
    /\ prefix = None
    /\ status_code = 0
    /\ file_keys = Undefined
    /\ closeup_files = Undefined
    /\ folder_url = Undefined
    /\ assets = <<>>
    /\ i = 0
    /\ errors = NoneErrors
    /\ exit_status = 0
    /\ exception = "none"

(***************************************************************************)
(* File specification: the lister, the classifier and the per-file loop    *)
(* bodies of both scripts, applied to every listing of Listings.           *)
(***************************************************************************)
HMission == <<"m">>

InitFiles ==
    /\ SysIdle
    /\ h_listing \in Listings
    /\ h_pc = "list"
    /\ h_imp = [file_keys |-> <<>>, closeup_files |-> <<>>]
    /\ h_att = [file_keys |-> <<>>, closeup_files |-> <<>>, folder_url |-> <<>>]
    /\ h_i = 0
    /\ h_imp_out = <<>>
    /\ h_att_out = <<>>

\* the response is 200: both scripts extract the keys and the close-ups
HList ==
    /\ h_pc = "list"
    /\ h_imp' = [file_keys |-> imp_file_keys(h_listing),
                 closeup_files |-> imp_closeup_files(imp_file_keys(h_listing))]
    /\ h_att' = get_mission_files(200, h_listing, HMission)
    /\ h_i' = 1
    /\ h_pc' = "imp"
    /\ UNCHANGED <<h_listing, h_imp_out, h_att_out>>
    /\ UNCHANGED svars

\* one iteration of the importer's asset loop
HImpFile ==
    /\ h_pc = "imp"
    /\ h_i <= Len(h_imp.closeup_files)
    /\ LET closeup_file == h_imp.closeup_files[h_i]
       IN  h_imp_out' = Append(h_imp_out,
               [closeup_file |-> closeup_file,
                global_key |-> imp_global_key(closeup_file),
                polygon_id |-> imp_polygon_id(closeup_file),
                wide_file |-> imp_wide_file(closeup_file, h_imp.file_keys),
                warnings |-> imp_warnings(closeup_file, h_imp.file_keys),
                attachments |->
                    imp_asset(closeup_file, h_imp.file_keys, HMission).attachments])
    /\ h_i' = h_i + 1
    /\ UNCHANGED <<h_pc, h_listing, h_imp, h_att, h_att_out>>
    /\ UNCHANGED svars

HImpDone ==
    /\ h_pc = "imp"
    /\ h_i > Len(h_imp.closeup_files)
    /\ h_pc' = "att"
    /\ h_i' = 1
    /\ UNCHANGED <<h_listing, h_imp, h_att, h_imp_out, h_att_out>>
    /\ UNCHANGED svars

\* one iteration of create_attachments
HAttFile ==
    /\ h_pc = "att"
    /\ h_i <= Len(h_att.closeup_files)
    /\ LET closeup_file == h_att.closeup_files[h_i]
       IN  h_att_out' = Append(h_att_out,
               [closeup_file |-> closeup_file,
                global_key |-> att_global_key(closeup_file),
                polygon_id |-> att_polygon_id(closeup_file),
                wide_file |-> att_wide_file(closeup_file, h_att.file_keys),
                warnings |-> att_warnings(closeup_file, h_att.file_keys),
                attachments |->
                    att_new_attachments(closeup_file, h_att.file_keys,
                                        h_att.folder_url, HMission)])
    /\ h_i' = h_i + 1
    /\ UNCHANGED <<h_pc, h_listing, h_imp, h_att, h_imp_out>>
    /\ UNCHANGED svars

HAttDone ==
    /\ h_pc = "att"
    /\ h_i > Len(h_att.closeup_files)
    /\ h_pc' = "done"
    /\ UNCHANGED <<h_listing, h_imp, h_att, h_i, h_imp_out, h_att_out>>
    /\ UNCHANGED svars

NextFiles == HList \/ HImpFile \/ HImpDone \/ HAttFile \/ HAttDone

SpecFiles == InitFiles /\ [][NextFiles]_vars

(***************************************************************************)
(* System specification: the three scripts run one after the other against *)
(* the annotation platform.                                                *)
(***************************************************************************)
M_TBS == <<"1","_","t","b","s","_","2","_","3">>
M_SHORT == <<"m">>
P_ARG == <<"p">>
Q_ARG == <<"q">>

M_UNKNOWN == <<"1","_","x","_","2","_","3">>

\* the (--mission_id, --prefix) pairs the importer and the sender are run with
PrefixRuns == {<<M_TBS, None>>, <<M_TBS, P_ARG>>, <<M_SHORT, None>>,
               <<M_UNKNOWN, None>>}
\* the --mission_id and --project values the attachment manager is run with
Missions == {M_TBS}
ProjectArgs == {P_ARG, Q_ARG}
\* the projects of the platform; no script creates one
ExistingProjects == {P_ARG}

SysKeys == {K_mission_p07tele, K_mission_p07wide}
\* the longest listing a run of the system specification fetches
MaxSysKeys == 2
SysListings == SeqsUpTo(SysKeys, MaxSysKeys)
\* a run that would take a data row beyond this many attachments is not started
MaxAttachments == 4
\* the sender is not started once this many batches exist
MaxBatches == 1

ValueError == <<"ValueError">>
INVALID_MESSAGE == <<"I","n","v","a","l","i","d">>

\* importer lines 63-78, sender lines 53-68: the prefix, or ValueError
derive_prefix(mission_id, prefix_arg) ==
    IF Truthy(prefix_arg) THEN prefix_arg
    ELSE LET parts == Split(mission_id, "_")
         IN  IF Len(parts) >= 4
             THEN IF StartsWith(parts[2], TBS) THEN PREFIX_TIPUTINI
                  ELSE IF StartsWith(parts[2], BCI) THEN PREFIX_BCI
                  ELSE ValueError
             ELSE ValueError

dataset_name(prefix_, mission_id) == prefix_ \o <<"_">> \o mission_id

\* next((ds for ds in datasets if ds.name == name), None) is not None
dataset_exists(name) == BagIn(name, datasets)

\* a starting script has fetched and built nothing yet
ResetRun ==
    /\ status_code' = 0
    /\ file_keys' = Undefined
    /\ closeup_files' = Undefined
    /\ folder_url' = Undefined
    /\ assets' = <<>>
    /\ i' = 0
    /\ errors' = NoneErrors

Init ==
    /\ SysIdle
    /\ h_pc = "off"
    /\ h_listing = <<>>
    /\ h_imp = [file_keys |-> <<>>, closeup_files |-> <<>>]
    /\ h_att = [file_keys |-> <<>>, closeup_files |-> <<>>, folder_url |-> <<>>]
    /\ h_i = 0
    /\ h_imp_out = <<>>
    /\ h_att_out = <<>>

(* ------------------------------ importer ------------------------------ *)
\* argument parsing and the prefix (lines 55-78)
ImporterStart(mission_id, prefix_arg) ==
    /\ pc = "idle"
    /\ script' = "import"
    /\ args' = [NoArgs EXCEPT !.mission_id = mission_id, !.prefix = prefix_arg]
    /\ ResetRun
    /\ IF derive_prefix(mission_id, prefix_arg) = ValueError
       THEN /\ pc' = "done"
            /\ exception' = "ValueError"
            /\ exit_status' = 1
            /\ prefix' = None
       ELSE /\ pc' = "fetch"
            /\ exception' = "none"
            /\ exit_status' = 0
            /\ prefix' = derive_prefix(mission_id, prefix_arg)
    /\ UNCHANGED <<datasets, rows, batches>>
    /\ UNCHANGED hvars

\* the listing GET and the key extraction (lines 80-118); after a response
\* other than 200 file_keys and closeup_files are never bound
ImporterFetch(status, listing) ==
    /\ script = "import"
    /\ pc = "fetch"
    /\ status_code' = status
    /\ folder_url' = imp_folder_url(args.mission_id)
    /\ IF status = 200
       THEN /\ file_keys' = imp_file_keys(listing)
            /\ closeup_files' = imp_closeup_files(imp_file_keys(listing))
       ELSE UNCHANGED <<file_keys, closeup_files>>
    /\ pc' = "dataset"
    /\ UNCHANGED <<datasets, rows, batches, script, args, prefix, assets, i,
                   errors, exit_status, exception>>
    /\ UNCHANGED hvars

\* faulty variant: the dataset is created without looking for an existing one
imp_datasets_after_always_create(name) == datasets (+) SetToBag({name})

\* the dataset lookup and creation (lines 120-131): the datasets afterwards
imp_datasets_after(name) ==
    IF dataset_exists(name) THEN datasets ELSE datasets (+) SetToBag({name})

ImporterDataset ==
    /\ script = "import"
    /\ pc = "dataset"
    /\ datasets' = imp_datasets_after(dataset_name(prefix, args.mission_id))
    /\ pc' = "assets"
    /\ UNCHANGED <<rows, batches, script, args, prefix, status_code, file_keys,
                   closeup_files, folder_url, assets, i, errors, exit_status,
                   exception>>
    /\ UNCHANGED hvars

\* the asset loop (lines 133-197); closeup_files unbound raises NameError
ImporterAssets ==
    /\ script = "import"
    /\ pc = "assets"
    /\ IF closeup_files = Undefined
       THEN /\ exception' = "NameError"
            /\ exit_status' = 1
            /\ pc' = "done"
            /\ UNCHANGED assets
       ELSE /\ assets' = imp_assets(closeup_files, file_keys, args.mission_id)
            /\ pc' = "import"
            /\ UNCHANGED <<exception, exit_status>>
    /\ UNCHANGED <<datasets, rows, batches, script, args, prefix, status_code,
                   file_keys, closeup_files, folder_url, i, errors>>
    /\ UNCHANGED hvars

\* create_data_rows on the platform: the asset at position k is refused as a
\* duplicate when its global key is on the platform or earlier in the list
is_duplicate(assets_, k) ==
    \/ assets_[k].global_key \in DOMAIN rows
    \/ \E j \in 1..(k - 1) : assets_[j].global_key = assets_[k].global_key

\* task.errors: None, or one error per refused asset; failing are the
\* positions the platform refuses for another reason
task_errors(assets_, failing) ==
    LET refused == {k \in 1..Len(assets_) : is_duplicate(assets_, k) \/ k \in failing}
        error(k) == IF is_duplicate(assets_, k)
                    THEN [message |-> DUPLICATE_GLOBAL_KEY \o <<":">>]
                    ELSE [message |-> INVALID_MESSAGE]
    IN  IF refused = {} THEN NoneErrors
        ELSE [is_none |-> FALSE,
              items |-> [n \in 1..Cardinality(refused) |-> error(Kth(refused, n))]]

\* the rows of the platform after create_data_rows
rows_after_import(assets_, failing) ==
    LET created == {k \in 1..Len(assets_) :
                        ~is_duplicate(assets_, k) /\ k \notin failing}
        keys == {assets_[k].global_key : k \in created}
    IN  [g \in DOMAIN rows \cup keys |->
            IF g \in DOMAIN rows THEN rows[g]
            ELSE assets_[CHOOSE k \in created : assets_[k].global_key = g].attachments]

\* lines 212-213
duplicate_count(errors_) ==
    Cardinality({k \in 1..Len(errors_.items) :
                    StartsWith(errors_.items[k].message, DUPLICATE_GLOBAL_KEY)})
other_errors(errors_) ==
    SelectSeq(errors_.items, LAMBDA e : ~StartsWith(e.message, DUPLICATE_GLOBAL_KEY))

\* the exit status of the error inspection (lines 208-221): the script logs
\* and runs off its end
inspect_exit_status(errors_) ==
    IF errors_.is_none THEN 0                     \* "No errors", line 209
    ELSE IF other_errors(errors_) # <<>> THEN 0   \* logger.error, line 219
    ELSE 0                                        \* "No errors", line 221

\* the import and the error inspection (lines 199-221)
ImporterImport(failing) ==
    /\ script = "import"
    /\ pc = "import"
    /\ failing \subseteq 1..Len(assets)
    /\ IF assets = <<>>
       THEN /\ exit_status' = 1
            /\ UNCHANGED <<rows, errors>>
       ELSE /\ rows' = rows_after_import(assets, failing)
            /\ errors' = task_errors(assets, failing)
            /\ exit_status' = inspect_exit_status(task_errors(assets, failing))
    /\ pc' = "done"
    /\ UNCHANGED <<datasets, batches, script, args, prefix, status_code,
                   file_keys, closeup_files, folder_url, assets, i, exception>>
    /\ UNCHANGED hvars

(* ------------------------- attachment manager ------------------------- *)
\* main up to the dataset check (lines 163-198)
AttachStart(mission_id, project, delete, create) ==
    /\ pc = "idle"
    /\ script' = "attach"
    /\ args' = [NoArgs EXCEPT !.mission_id = mission_id, !.project = project,
                              !.delete = delete, !.create = create]
    /\ ResetRun
    /\ prefix' = None
    /\ exception' = "none"
    /\ exit_status' = 0
    /\ pc' = IF dataset_exists(dataset_name(project, mission_id))
             THEN "fetch" ELSE "done"
    /\ UNCHANGED <<datasets, rows, batches>>
    /\ UNCHANGED hvars

\* the position after the fetch, or after the delete loop when deleted
att_next_pc(closeup_files_, deleted) ==
    IF ~Truthy(closeup_files_) THEN "done"
    ELSE IF args.delete /\ ~deleted THEN "delete"
    ELSE IF args.create THEN "create"
    ELSE "done"

\* get_mission_files and the dispatch on the flags (lines 200-215)
AttachFetch(status, listing) ==
    /\ script = "attach"
    /\ pc = "fetch"
    /\ LET got == get_mission_files(status, listing, args.mission_id)
       IN  /\ args.create /\ Truthy(got.closeup_files) =>
                \A g \in DOMAIN rows :
                    Len(rows[g]) + 2 * Len(got.closeup_files) <= MaxAttachments
           /\ status_code' = status
           /\ file_keys' = got.file_keys
           /\ closeup_files' = got.closeup_files
           /\ folder_url' = got.folder_url
           /\ pc' = att_next_pc(got.closeup_files, FALSE)
           /\ i' = 1
    /\ UNCHANGED <<datasets, rows, batches, script, args, prefix, assets,
                   errors, exit_status, exception>>
    /\ UNCHANGED hvars

\* one iteration of delete_attachments (lines 69-78); the platform raises
\* when no data row has the global key
AttachDeleteFile ==
    /\ script = "attach"
    /\ pc = "delete"
    /\ LET file == att_global_key(closeup_files[i])
       IN  IF file \notin DOMAIN rows
           THEN /\ exception' = "ResourceNotFoundError"
                /\ exit_status' = 1
                /\ pc' = "done"
                /\ UNCHANGED <<rows, i>>
           ELSE /\ rows' = [rows EXCEPT ![file] = <<>>]
                /\ IF i < Len(closeup_files)
                   THEN /\ i' = i + 1
                        /\ UNCHANGED pc
                   ELSE /\ i' = 1
                        /\ pc' = att_next_pc(closeup_files, TRUE)
                /\ UNCHANGED <<exception, exit_status>>
    /\ UNCHANGED <<datasets, batches, script, args, prefix, status_code,
                   file_keys, closeup_files, folder_url, assets, errors>>
    /\ UNCHANGED hvars

\* one iteration of create_attachments (lines 96-132)
AttachCreateFile ==
    /\ script = "attach"
    /\ pc = "create"
    /\ LET file == att_global_key(closeup_files[i])
       IN  IF file \notin DOMAIN rows
           THEN /\ exception' = "ResourceNotFoundError"
                /\ exit_status' = 1
                /\ pc' = "done"
                /\ UNCHANGED <<rows, i>>
           ELSE /\ rows' = [rows EXCEPT ![file] = rows[file] \o
                                att_new_attachments(closeup_files[i], file_keys,
                                                    folder_url, args.mission_id)]
                /\ IF i < Len(closeup_files)
                   THEN /\ i' = i + 1
                        /\ UNCHANGED pc
                   ELSE /\ i' = 1
                        /\ pc' = "done"
                /\ UNCHANGED <<exception, exit_status>>
    /\ UNCHANGED <<datasets, batches, script, args, prefix, status_code,
                   file_keys, closeup_files, folder_url, assets, errors>>
    /\ UNCHANGED hvars

(* ------------------------------- sender ------------------------------- *)
\* the whole script (lines 43-88)
SenderRun(mission_id, project, prefix_arg) ==
    /\ pc = "idle"
    /\ Len(batches) < MaxBatches
    /\ script' = "send"
    /\ args' = [NoArgs EXCEPT !.mission_id = mission_id, !.project = project,
                              !.prefix = prefix_arg]
    /\ ResetRun
    /\ pc' = "done"
    /\ IF derive_prefix(mission_id, prefix_arg) = ValueError
       THEN /\ exception' = "ValueError"
            /\ exit_status' = 1
            /\ prefix' = None
            /\ UNCHANGED batches
       ELSE /\ prefix' = derive_prefix(mission_id, prefix_arg)
            /\ IF ~dataset_exists(dataset_name(prefix', mission_id))
               THEN /\ exception' = "none"
                    /\ exit_status' = 0
                    /\ UNCHANGED batches
               ELSE IF project \notin ExistingProjects
               THEN /\ exception' = "AttributeError"
                    /\ exit_status' = 1
                    /\ UNCHANGED batches
               ELSE /\ exception' = "none"
                    /\ exit_status' = 0
                    /\ batches' = Append(batches,
                          [project |-> project,
                           dataset |-> dataset_name(prefix', mission_id),
                           name_prefix |-> mission_id \o <<"_">>,
                           priority |-> 3])
    /\ UNCHANGED <<datasets, rows>>
    /\ UNCHANGED hvars

\* the process ends; the next script can start
Exit ==
    /\ pc = "done"
    /\ pc' = "idle"
    /\ script' = "none"
    /\ args' = NoArgs
    /\ ResetRun
    /\ prefix' = None
    /\ exception' = "none"
    /\ exit_status' = 0
    /\ UNCHANGED <<datasets, rows, batches>>
    /\ UNCHANGED hvars

Next ==
    \/ \E r \in PrefixRuns : ImporterStart(r[1], r[2])
    \/ \E st \in {200, 404}, l \in SysListings : ImporterFetch(st, l)
    \/ ImporterDataset
    \/ ImporterAssets
    \/ \E failing \in SUBSET (1..MaxSysKeys) : ImporterImport(failing)
    \/ \E m \in Missions, p \in ProjectArgs, d \in BOOLEAN, c \in BOOLEAN :
          AttachStart(m, p, d, c)
    \/ \E st \in {200, 404}, l \in SysListings : AttachFetch(st, l)
    \/ AttachDeleteFile
    \/ AttachCreateFile
    \/ \E r \in PrefixRuns, pr \in ProjectArgs : SenderRun(r[1], pr, r[2])
    \/ Exit

Spec == Init /\ [][Next]_vars

(***************************************************************************)
(* Properties of the file functions, checked under SpecFiles.              *)
(***************************************************************************)
\* the records of the close-up files processed so far, with the key list
\* each was matched against
Matched ==
    {[r |-> h_imp_out[k], keys |-> h_imp.file_keys] : k \in 1..Len(h_imp_out)}
    \cup {[r |-> h_att_out[k], keys |-> h_att.file_keys] : k \in 1..Len(h_att_out)}

InSeq(x, s) == \E k \in 1..Len(s) : s[k] = x

\* sub holds exactly the elements of s at the positions of P, in order
IsSelection(sub, s, P) ==
    /\ Len(sub) = Cardinality(P)
    /\ \A k \in 1..Len(sub) : sub[k] = s[Kth(P, k)]

\* C1, as stated: for the close-up key mission_p07_tele.JPG and a key list
\* that contains mission_p07wide.JPG, the matcher returns mission_p07wide.JPG
C1_Original ==
    \A m \in Matched :
        (m.r.closeup_file = K_mission_p07_tele /\ InSeq(K_mission_p07wide, m.keys))
            => m.r.wide_file = K_mission_p07wide

P07_WIDE_END == <<"_","p","0","7">> \o WIDE_JPG

\* C1, amended: for the close-up key mission_p07tele.JPG (polygon id p07)
\* and a key list in which mission_p07wide.JPG is the first key that
\* contains _p07wide.JPG and not tele, the matcher returns
\* mission_p07wide.JPG; for mission_p07_tele.JPG the polygon id is empty and
\* mission_p07wide.JPG is never the wide file
C1_TeleMatch ==
    \A m \in Matched :
        /\ (/\ m.r.closeup_file = K_mission_p07tele
            /\ \E k \in 1..Len(m.keys) :
                  /\ m.keys[k] = K_mission_p07wide
                  /\ \A j \in 1..(k - 1) :
                        ~Contains(m.keys[j], P07_WIDE_END) \/ Contains(m.keys[j], TELE))
           => (m.r.polygon_id = <<"p","0","7">> /\ m.r.wide_file = K_mission_p07wide)
        /\ m.r.closeup_file = K_mission_p07_tele
           => (m.r.polygon_id = <<>> /\ m.r.wide_file # K_mission_p07wide)

\* both scripts have matched mission_p07tele.JPG to mission_p07wide.JPG, and
\* the importer has found no wide file for mission_p07_tele.JPG beside it
C1_Witness ==
    /\ \E k \in 1..Len(h_imp_out) :
          /\ h_imp_out[k].closeup_file = K_mission_p07tele
          /\ h_imp_out[k].wide_file = K_mission_p07wide
    /\ \E k \in 1..Len(h_att_out) :
          /\ h_att_out[k].closeup_file = K_mission_p07tele
          /\ h_att_out[k].wide_file = K_mission_p07wide
    /\ \E k \in 1..Len(h_imp_out) :
          /\ h_imp_out[k].closeup_file = K_mission_p07_tele
          /\ h_imp_out[k].wide_file = None

\* the suffix and the token the claim names for a close-up record
ExpectedSuffix(r) ==
    <<"_">> \o r.polygon_id
        \o (IF Contains(r.closeup_file, TELE) THEN WIDE_JPG ELSE DOT_JPG)
ConventionToken(r) == IF Contains(r.closeup_file, TELE) THEN TELE ELSE ZOOM
Candidates(m) ==
    {k \in 1..Len(m.keys) : /\ Contains(m.keys[k], ExpectedSuffix(m.r))
                            /\ ~Contains(m.keys[k], ConventionToken(m.r))}

\* C7: the matcher returns the first key in listing order that contains the
\* expected suffix and not the close-up's token, no match when there is
\* none; the result is never the close-up key, and a warning is recorded
\* exactly when the number of candidates is zero or more than one
C7_MatcherFirst ==
    \A m \in Matched :
        /\ Candidates(m) = {} => m.r.wide_file = None
        /\ Candidates(m) # {} => m.r.wide_file = m.keys[Min(Candidates(m))]
        /\ m.r.wide_file # m.r.closeup_file
        /\ (m.r.warnings.multiple \/ m.r.warnings.no_wide)
              <=> Cardinality(Candidates(m)) # 1
        /\ m.r.warnings.multiple <=> Cardinality(Candidates(m)) > 1
        /\ m.r.warnings.no_wide <=> Cardinality(Candidates(m)) = 0

\* a close-up with two candidates took the first of them and warned, in both
\* scripts
C7_Witness ==
    /\ \E k \in 1..Len(h_imp_out) :
          /\ h_imp_out[k].warnings.multiple
          /\ h_imp_out[k].wide_file = K_other_p07wide
          /\ InSeq(K_mission_p07wide, h_imp.file_keys)
    /\ \E k \in 1..Len(h_att_out) :
          /\ h_att_out[k].warnings.multiple
          /\ h_att_out[k].wide_file = K_other_p07wide
          /\ InSeq(K_mission_p07wide, h_att.file_keys)

TelePositions(keys) == {k \in 1..Len(keys) : Contains(keys[k], TELE)}
ZoomPositions(keys) == {k \in 1..Len(keys) : Contains(keys[k], ZOOM)}

Classified(file_keys_, closeup_files_) ==
    IF TelePositions(file_keys_) # {}
    THEN IsSelection(closeup_files_, file_keys_, TelePositions(file_keys_))
    ELSE IsSelection(closeup_files_, file_keys_, ZoomPositions(file_keys_))

\* C8: the close-up set is the keys containing tele, in listing order, when
\* there is one, and only otherwise the keys containing zoom; the scenario
\* listing gives the close-ups [a_tele.JPG], matched to a_wide.JPG
C8_TelePrecedence ==
    h_pc # "list" =>
        /\ Classified(h_imp.file_keys, h_imp.closeup_files)
        /\ Classified(h_att.file_keys, h_att.closeup_files)
        /\ h_listing = ScenarioListing =>
              /\ h_imp.closeup_files = <<K_a_tele>>
              /\ h_att.closeup_files = <<K_a_tele>>
              /\ \A m \in Matched : m.r.wide_file = K_a_wide

\* the scenario listing is through both loops: b_zoom.JPG is in the key list
\* and is no close-up, and a_tele.JPG is matched to a_wide.JPG
C8_Witness ==
    /\ h_listing = ScenarioListing
    /\ h_pc = "done"
    /\ InSeq(K_b_zoom, h_imp.file_keys)
    /\ InSeq(K_b_zoom, h_att.file_keys)
    /\ h_imp.closeup_files = <<K_a_tele>>
    /\ Len(h_imp_out) = 1
    /\ h_imp_out[1].wide_file = K_a_wide
    /\ Len(h_att_out) = 1
    /\ h_att_out[1].wide_file = K_a_wide

\* C9, as stated: every key of the listing that contains .jpg in any letter
\* case is in the returned key list
C9_Original ==
    h_pc # "list" =>
        \A k \in 1..Len(h_listing) :
            Contains(Lower(h_listing[k]), DOT_jpg) =>
                /\ InSeq(h_listing[k], h_imp.file_keys)
                /\ InSeq(h_listing[k], h_att.file_keys)

\* the last four characters are .jpg in some letter case
HasJpgExtension(key) ==
    /\ Len(key) >= 4
    /\ key[Len(key) - 3] = "."
    /\ key[Len(key) - 2] \in {"j", "J"}
    /\ key[Len(key) - 1] \in {"p", "P"}
    /\ key[Len(key)] \in {"g", "G"}

JpgPositions(listing) == {k \in 1..Len(listing) : HasJpgExtension(listing[k])}

\* C9, amended: the returned key list holds exactly the keys that end in
\* .jpg in any letter case, in listing order; every other key is excluded
C9_ListerEndsWith ==
    h_pc # "list" =>
        /\ IsSelection(h_imp.file_keys, h_listing, JpgPositions(h_listing))
        /\ IsSelection(h_att.file_keys, h_listing, JpgPositions(h_listing))

\* a listing with a .jpg key, a .JPG key and a key that only contains .JPG
C9_Witness ==
    /\ h_pc # "list"
    /\ InSeq(K_dir2_tele, h_imp.file_keys)
    /\ InSeq(K_mission_p07wide, h_att.file_keys)
    /\ InSeq(K_jpg_txt, h_listing)
    /\ ~InSeq(K_jpg_txt, h_imp.file_keys)

\* C10, as stated: the global key of a close-up file is what follows the
\* last / of its key
C10_GlobalKeyIsBasename ==
    \A m \in Matched :
        /\ ~Contains(m.r.global_key, <<"/">>)
        /\ \/ m.r.closeup_file = m.r.global_key
           \/ EndsWith(m.r.closeup_file, <<"/">> \o m.r.global_key)

\* C6, as stated: a close-up file with no matching wide candidate gives a
\* row, submitted or updated, that carries the map attachment and no
\* attachment named wide
C6_NoWideAttachmentWhenUnmatched ==
    \A m \in Matched :
        Candidates(m) = {} =>
            /\ \E k \in 1..Len(m.r.attachments) : m.r.attachments[k].name = "map"
            /\ \A k \in 1..Len(m.r.attachments) : m.r.attachments[k].name # "wide"

(***************************************************************************)
(* Properties of the script runs, checked under Spec.                      *)
(***************************************************************************)
\* the listing GET of the running script was answered with another status
\* than 200
FetchFailed == script \in {"import", "attach"} /\ status_code \notin {0, 200}

\* C2, as stated: after a failed fetch the script makes no remote mutation
\* and raises no unhandled exception
C2_FailedFetchStops ==
    [][FetchFailed =>
          /\ datasets' = datasets
          /\ rows' = rows
          /\ batches' = batches
          /\ exception' = "none"]_vars

\* the import job of the running importer has completed
ImportCompleted ==
    script = "import" /\ pc = "done" /\ exception = "none" /\ assets # <<>>

HasOtherError ==
    /\ ~errors.is_none
    /\ \E k \in 1..Len(errors.items) :
          ~StartsWith(errors.items[k].message, DUPLICATE_GLOBAL_KEY)

\* C3, as stated: an error other than a duplicate global key ends the
\* importer with a non-zero exit status; no error, or duplicates only, with
\* exit status zero
C3_OtherErrorsExitNonZero ==
    ImportCompleted =>
        /\ HasOtherError => exit_status # 0
        /\ ~HasOtherError => exit_status = 0

NameCount(attachments, name) ==
    Cardinality({k \in 1..Len(attachments) : attachments[k].name = name})

\* C4, as stated: after a completed attachment-manager run, whatever its
\* flags, every data row holds at most one attachment named wide and at
\* most one named map
C4_AtMostOneAttachmentSet ==
    (script = "attach" /\ pc = "done" /\ exception = "none") =>
        \A g \in DOMAIN rows :
            /\ NameCount(rows[g], "wide") <= 1
            /\ NameCount(rows[g], "map") <= 1

\* C5: the platform holds at most one dataset for each name; a dataset is
\* created only by the importer, only under the name {prefix}_{mission_id}
\* and only when no dataset has that name
C5_DatasetsNotDuplicated ==
    [][/\ \A name \in BagToSet(datasets') : CopiesIn(name, datasets') = 1
       /\ datasets' # datasets =>
             /\ script = "import"
             /\ ~BagIn(prefix \o <<"_">> \o args.mission_id, datasets)
             /\ BagToSet(datasets') =
                    BagToSet(datasets) \cup {prefix \o <<"_">> \o args.mission_id}]_vars

\* two datasets exist, a batch was sent, the attachment manager has created
\* attachments, and the importer has passed its dataset step once more,
\* under a name that existed
C5_Witness ==
    /\ script = "import"
    /\ pc = "assets"
    /\ BagToSet(datasets) = {PREFIX_TIPUTINI \o <<"_">> \o M_TBS,
                             P_ARG \o <<"_">> \o M_TBS}
    /\ Len(batches) = 1
    /\ \E g \in DOMAIN rows : NameCount(rows[g], "map") > 1

\* the step is a run of the sender whose prefix was given or derived
SenderStep == pc = "idle" /\ script' = "send" /\ prefix' # None

\* C11, as stated: the sender creates a batch only when both the project and
\* the dataset {prefix}_{mission_id} were found; when the project is not
\* found it ends without a batch and without an unhandled exception,
\* whether or not the dataset exists
C11_SenderGuard ==
    [][SenderStep =>
          /\ batches' # batches =>
                /\ args'.project \in ExistingProjects
                /\ BagIn(prefix' \o <<"_">> \o args'.mission_id, datasets)
          /\ args'.project \notin ExistingProjects =>
                /\ batches' = batches
                /\ exception' = "none"]_vars

====
